---- MODULE Spec2Model ----
(***************************************************************************)
(* Portfolio ledger, daily snapshot and stop-loss logic of                 *)
(*   src/Scripts and CSV Files/enhanced_trading_script.py                  *)
(*   src/Scripts and CSV Files/portfolio_manager.py                        *)
(*                                                                         *)
(* Money is an integer number of units, Sub units to the cent, so that     *)
(* round(x, 2) is a real conversion (Round2) and not the identity.         *)
(* An optional CSV cell is a sequence: <<>> is the empty cell "", <<v>> a  *)
(* cell holding v.                                                         *)
(***************************************************************************)
EXTENDS Integers, Sequences, FiniteSets, TLC

\* ---------------------------------------------------------------- bounds
Sub == 2
MaxShares == 2
MaxPrice == 4
MaxPositions == 2
MaxLog == 2
MaxDay == 2

Tickers == {"X", "Y"}
TickerOrder == <<"X", "Y">>
ShareArgs == 0..MaxShares
PriceArgs == (MaxPrice - 1)..MaxPrice
StopArgs == {2 * Sub}
\* closes below the stop, on the stop, rounding onto the stop, above the stop
CloseVals == {Sub, 2 * Sub, 2 * Sub + 1, 3 * Sub}
\* the ledger the script starts from: its cash and portfolio literals
StartCash == {3 * Sub}
StartPortfolio ==
    {<<[ticker |-> "X", shares |-> 2, stop_loss |-> 2 * Sub,
        buy_price |-> 2 * Sub, cost_basis |-> 4 * Sub]>>}
\* the same literals for a script that holds two positions
StartPair ==
    <<[ticker |-> "X", shares |-> 2, stop_loss |-> 2 * Sub,
       buy_price |-> 2 * Sub, cost_basis |-> 4 * Sub],
      [ticker |-> "Y", shares |-> 1, stop_loss |-> 2 * Sub,
       buy_price |-> 3 * Sub, cost_basis |-> 3 * Sub]>>
Benchmarks == {"^RUT", "IWO", "XBI"}
BenchmarkOrder == <<"^RUT", "IWO", "XBI">>

None == <<>>
Some(v) == <<v>>

VARIABLES
    today,       \* the global `today` of the running script
    cash,        \* the script's cash variable
    portfolio,   \* the script's chatgpt_portfolio: a sequence of positions
    tradeLog,    \* rows of chatgpt_trade_log.csv
    history,     \* rows of chatgpt_portfolio_update.csv
    lastOp,      \* the last call made and how it ended
    beforeBuy,   \* cash and portfolio before the buy just made, if any
    lastReport,  \* what generate_daily_report last computed, if it ran last
    lastResults, \* if daily_results_with_llm ran last: the portfolio
                 \* tickers the feed answered for, and how it ended
    reportFile   \* daily_report_<today>.txt, if run_daily_analysis wrote
                 \* it today: the texts it put after the report

vars == <<today, cash, portfolio, tradeLog, history, lastOp, beforeBuy,
          lastReport, lastResults, reportFile>>

\* ------------------------------------------------------------ arithmetic
\* round(x, 2): nearest whole cent, a tie goes to the even cent
Round2(x) ==
    LET q == x \div Sub
        r == x % Sub
    IN  IF 2 * r < Sub THEN q * Sub
        ELSE IF 2 * r > Sub THEN (q + 1) * Sub
        ELSE IF q % 2 = 0 THEN q * Sub ELSE (q + 1) * Sub

\* ------------------------------------------------------------- trade log
\* log_sell taking the file as absent (line 192) whatever it holds
log_sell_overwrite(log, date, ticker, shares, price, cost, pnl) ==
    <<[Date |-> date, Ticker |-> ticker,
       SharesBought |-> None, BuyPrice |-> None,
       CostBasis |-> cost, PnL |-> pnl,
       Reason |-> "AUTOMATED SELL - STOPLOSS TRIGGERED",
       SharesSold |-> Some(shares), SellPrice |-> Some(price)]>>

\* log_sell: one record appended to chatgpt_trade_log.csv
log_sell(log, date, ticker, shares, price, cost, pnl) ==
    Append(log, [Date |-> date, Ticker |-> ticker,
                 SharesBought |-> None, BuyPrice |-> None,
                 CostBasis |-> cost, PnL |-> pnl,
                 Reason |-> "AUTOMATED SELL - STOPLOSS TRIGGERED",
                 SharesSold |-> Some(shares), SellPrice |-> Some(price)])

\* ------------------------------------------------------------ manual buy
\* log_manual_buy: the two SystemExit(...) of lines 203 and 205 are built
\* but never raised, so neither a missing ticker nor a cost above the cash
\* stops the purchase.
log_manual_buy(buy_price, shares, ticker, cash_, stoploss, chatgpt_portfolio, log, date, check, data_empty) ==
    IF check = "1"
    THEN [err |-> "SystemExit", cash |-> cash_,
          portfolio |-> chatgpt_portfolio, log |-> log]
    ELSE
      LET new_log == Append(log,
                       [Date |-> date, Ticker |-> ticker,
                        SharesBought |-> Some(shares),
                        BuyPrice |-> Some(buy_price),
                        CostBasis |-> buy_price * shares, PnL |-> 0,
                        Reason |-> "MANUAL BUY - New position",
                        SharesSold |-> None, SellPrice |-> None])
          new_trade == [ticker |-> ticker, shares |-> shares,
                        stop_loss |-> stoploss, buy_price |-> buy_price,
                        cost_basis |-> buy_price * shares]
      IN  [err |-> "ok", cash |-> cash_ - shares * buy_price,
           portfolio |-> Append(chatgpt_portfolio, new_trade),
           log |-> new_log]

\* ----------------------------------------------------------- manual sell
\* the membership test of line 236 left out
ticker_missing_never(chatgpt_portfolio, ticker) == FALSE

\* line 236: ticker not in chatgpt_portfolio["ticker"].values
ticker_missing(chatgpt_portfolio, ticker) ==
    \A i \in 1..Len(chatgpt_portfolio) : chatgpt_portfolio[i].ticker # ticker

\* the comparison of line 242 left out
oversell_never(shares_sold, total_shares) == FALSE

\* line 242: shares_sold > total_shares
oversell(shares_sold, total_shares) == shares_sold > total_shares

\* the filter of line 274 keeping every row
drop_ticker_none(chatgpt_portfolio, ticker) == chatgpt_portfolio

\* line 274: chatgpt_portfolio[chatgpt_portfolio["ticker"] != ticker]
drop_ticker(chatgpt_portfolio, ticker) ==
    SelectSeq(chatgpt_portfolio, LAMBDA p : p.ticker # ticker)

\* log_manual_sell.  ticker_row is the boolean-mask selection of line 238,
\* which pandas returns as a new frame: the assignments of lines 276-277
\* change that copy (ticker_row_sold) and not chatgpt_portfolio, which is
\* what line 280 returns.  Series.item() of line 240 raises ValueError
\* unless the selection has exactly one row.
log_manual_sell(sell_price, shares_sold, ticker, cash_, chatgpt_portfolio, log, date, reason) ==
    LET ticker_row == SelectSeq(chatgpt_portfolio,
                                LAMBDA p : p.ticker = ticker)
        fail(e, asked) == [err |-> e, prompted |-> asked, cash |-> cash_,
                           portfolio |-> chatgpt_portfolio, log |-> log]
    IN
    IF ticker_missing(chatgpt_portfolio, ticker) THEN fail("KeyError", FALSE)
    ELSE IF Len(ticker_row) # 1 THEN fail("ValueError", FALSE)
    ELSE
      LET total_shares == ticker_row[1].shares
          buy_price == ticker_row[1].buy_price
      IN
      IF oversell(shares_sold, total_shares) THEN fail("ValueError", FALSE)
      ELSE IF reason = "1" THEN fail("SystemExit", TRUE)
      ELSE
        LET cost_basis == buy_price * shares_sold
            PnL == sell_price * shares_sold - cost_basis
            new_log == Append(log,
                         [Date |-> date, Ticker |-> ticker,
                          SharesBought |-> None, BuyPrice |-> None,
                          CostBasis |-> cost_basis, PnL |-> PnL,
                          Reason |-> "MANUAL SELL - " \o reason,
                          SharesSold |-> Some(shares_sold),
                          SellPrice |-> Some(sell_price)])
            ticker_row_sold ==
                [ticker_row EXCEPT
                   ![1].shares = total_shares - shares_sold,
                   ![1].cost_basis = (total_shares - shares_sold)
                                       * ticker_row[1].buy_price]
            new_portfolio ==
                IF total_shares = shares_sold
                THEN drop_ticker(chatgpt_portfolio, ticker)
                ELSE chatgpt_portfolio
        IN  [err |-> "ok", prompted |-> TRUE,
             cash |-> cash_ + shares_sold * sell_price,
             portfolio |-> new_portfolio, log |-> new_log]

\* ------------------------------------------------------------- daily run
\* line 44 with a strict comparison
stop_hit_strict(price, stop) == price < stop

\* line 44: price <= stop
stop_hit(price, stop) == price <= stop

\* line 46 left out
proceeds_dropped(cash_, value) == cash_

\* line 46: cash += value
add_proceeds(cash_, value) == cash_ + value

\* One iteration of the loop of lines 17-67 for portfolio row `stock`;
\* data is the feed's answer for the ticker (None: data.empty).
process_row(stock, data, date, acc) ==
    LET ticker == stock.ticker
        shares == stock.shares
        cost == stock.buy_price
        stop == stock.stop_loss
    IN
    IF data = None
    THEN [acc EXCEPT !.results = Append(@,
            [Date |-> date, Ticker |-> ticker, Shares |-> Some(shares),
             CostBasis |-> Some(cost), StopLoss |-> Some(stop),
             Price |-> None, Value |-> None, PnL |-> None,
             Action |-> "NO DATA", Cash |-> None, Equity |-> None])]
    ELSE
      LET price == Round2(data[1])
          value == Round2(price * shares)
          pnl == Round2((price - cost) * shares)
          sell == stop_hit(price, stop)
          row == [Date |-> date, Ticker |-> ticker, Shares |-> Some(shares),
                  CostBasis |-> Some(cost), StopLoss |-> Some(stop),
                  Price |-> Some(price), Value |-> Some(value),
                  PnL |-> Some(pnl),
                  Action |-> IF sell THEN "SELL - Stop Loss Triggered"
                             ELSE "HOLD",
                  Cash |-> None, Equity |-> None]
      IN  IF sell
          THEN [results |-> Append(acc.results, row),
                total_value |-> acc.total_value,
                total_pnl |-> acc.total_pnl,
                cash |-> add_proceeds(acc.cash, value),
                log |-> log_sell(acc.log, date, ticker, shares, price,
                                 cost, pnl)]
          ELSE [results |-> Append(acc.results, row),
                total_value |-> acc.total_value + value,
                total_pnl |-> acc.total_pnl + pnl,
                cash |-> acc.cash,
                log |-> acc.log]

\* the loop of lines 17-67 ending at the first ticker without data
RECURSIVE process_rows_until_no_data(_, _, _, _, _)
process_rows_until_no_data(pf, i, feed, date, acc) ==
    IF i > Len(pf) \/ feed[pf[i].ticker] = None THEN acc
    ELSE process_rows_until_no_data(pf, i + 1, feed, date,
                      process_row(pf[i], feed[pf[i].ticker], date, acc))

RECURSIVE process_rows(_, _, _, _, _)
process_rows(pf, i, feed, date, acc) ==
    IF i > Len(pf) THEN acc
    ELSE process_rows(pf, i + 1, feed, date,
                      process_row(pf[i], feed[pf[i].ticker], date, acc))

\* the filter of line 91 keeping every row
other_dates_all(hist, date) == hist

\* line 91: existing[existing["Date"] != today]
other_dates(hist, date) == SelectSeq(hist, LAMBDA r : r.Date # date)

\* the LLM block without the except clause of lines 117-119
llm_block_uncaught(use_llm, llm_ok) ==
    IF ~use_llm THEN "" ELSE IF llm_ok THEN "saved" ELSE "raised"

\* the LLM block of lines 96-119, whose every failure is caught: llm_ok says
\* whether a provider could be built and answered, in which case the
\* analysis file llm_analysis_<today>.txt is written ("saved")
llm_block(use_llm, llm_ok) ==
    IF ~use_llm THEN "" ELSE IF llm_ok THEN "saved" ELSE "failed"

\* process_portfolio_with_llm_analysis: the loop, the TOTAL row, the
\* replacement of today's rows in the history file, then the LLM block.
\* The analysis file is never read back by the program.  The portfolio
\* handed in is returned as it came; err tells whether the function
\* returned or an exception left it after the history file was written.
process_portfolio_with_llm_analysis(pf, starting_cash, hist, log, date, feed, use_llm, llm_ok) ==
    LET acc == process_rows(pf, 1, feed, date,
                  [results |-> <<>>, total_value |-> 0, total_pnl |-> 0,
                   cash |-> starting_cash, log |-> log])
        total_row == [Date |-> date, Ticker |-> "TOTAL", Shares |-> None,
                      CostBasis |-> None, StopLoss |-> None, Price |-> None,
                      Value |-> Some(Round2(acc.total_value)),
                      PnL |-> Some(Round2(acc.total_pnl)),
                      Action |-> "",
                      Cash |-> Some(Round2(acc.cash)),
                      Equity |-> Some(Round2(acc.total_value + acc.cash))]
        df == Append(acc.results, total_row)
        existing == other_dates(hist, date)
        llm == llm_block(use_llm, llm_ok)
    IN  [portfolio |-> pf, history |-> existing \o df, log |-> acc.log,
         llm |-> llm, err |-> IF llm = "raised" THEN "Exception" ELSE "ok"]

\* ---------------------------------------------------- portfolio manager
InitialCash == 100 * Sub

HistoryTickers(hist) ==
    {hist[i].Ticker : i \in 1..Len(hist)} \ {"TOTAL"}

\* groupby('Ticker').last(): per column, the last cell of the group that is
\* not empty
LastCell(rows, col) ==
    LET set == {i \in 1..Len(rows) : rows[i][col] # None}
    IN  IF set = {} THEN None
        ELSE rows[CHOOSE i \in set : \A j \in set : j <= i][col]

RECURSIVE positions_of(_, _)
positions_of(hist, k) ==
    IF k > Len(TickerOrder) THEN <<>>
    ELSE LET rows == SelectSeq(hist, LAMBDA r : r.Ticker = TickerOrder[k])
         IN  (IF Len(rows) = 0 THEN <<>>
              ELSE <<[ticker |-> TickerOrder[k],
                      shares |-> LastCell(rows, "Shares"),
                      cost_basis |-> LastCell(rows, "CostBasis"),
                      current_price |-> LastCell(rows, "Price"),
                      stop_loss |-> LastCell(rows, "StopLoss"),
                      pnl |-> LastCell(rows, "PnL")]>>)
             \o positions_of(hist, k + 1)

\* AIPortfolioManager.get_current_positions; the groups come in ticker order
get_current_positions(portfolio_df) ==
    IF Len(portfolio_df) = 0
    THEN [positions |-> <<>>, cash |-> Some(InitialCash),
          total_equity |-> Some(InitialCash)]
    ELSE LET totals == SelectSeq(portfolio_df, LAMBDA r : r.Ticker = "TOTAL")
         IN  [positions |-> positions_of(portfolio_df, 1),
              cash |-> IF Len(totals) = 0 THEN Some(0)
                       ELSE LastCell(totals, "Cash"),
              total_equity |-> IF Len(totals) = 0 THEN Some(0)
                               ELSE LastCell(totals, "Equity")]

\* AIPortfolioManager.fetch_market_data: an entry for each requested ticker
\* whose download gave data, none for the others
fetch_market_data(tickers, feed) ==
    [t \in {u \in tickers : feed[u] # None} |->
        [current_price |-> feed[t][1]]]

RECURSIVE check_stop_losses(_, _)
\* AIPortfolioManager.check_stop_losses
check_stop_losses(positions, market_data) ==
    IF Len(positions) = 0 THEN <<>>
    ELSE LET position == Head(positions)
             ticker == position.ticker
             hit == /\ ticker \in DOMAIN market_data
                    /\ market_data[ticker].current_price
                         <= position.stop_loss[1]
         IN  (IF hit
              THEN <<[ticker |-> ticker,
                      current_price |-> market_data[ticker].current_price,
                      stop_loss |-> position.stop_loss[1],
                      shares |-> position.shares,
                      reason |-> "Stop Loss Triggered"]>>
              ELSE <<>>)
             \o check_stop_losses(Tail(positions), market_data)

\* ---------------------------------------------------------------- metrics
\* chatgpt_df[chatgpt_df['Ticker'] == 'TOTAL'], in file order
TotalRows(hist) == SelectSeq(hist, LAMBDA r : r.Ticker = "TOTAL")

\* totals['Total Equity'].astype(float): the cells of the rows, in order
RECURSIVE total_equity(_)
total_equity(totals) ==
    IF Len(totals) = 0 THEN <<>>
    ELSE <<Head(totals).Equity[1]>> \o total_equity(Tail(totals))

\* the Total Equity cells of the TOTAL rows (line 316)
EquitySeries(hist) == total_equity(TotalRows(hist))

\* pct_change().dropna(): the return of step i is the exact fraction
\* <<e[i+1] - e[i], e[i]>>; the first row has none
pct_change(equity_series) ==
    [i \in 1..(Len(equity_series) - 1) |->
        <<equity_series[i + 1] - equity_series[i], equity_series[i]>>]

\* Series.std(), the sample standard deviation (divisor n - 1): not a
\* number for fewer than two values, zero when the values are all the same,
\* positive otherwise.  Its size is not modelled.
std(series) ==
    IF Len(series) < 2 THEN "nan"
    ELSE IF \A i, j \in 1..Len(series) :
               series[i][1] * series[j][2] = series[j][1] * series[i][2]
         THEN "zero"
         ELSE "positive"

\* x / (std * np.sqrt(n_days)) of lines 326-327, numpy arithmetic: a divisor
\* that is not a number gives nan, a zero divisor gives inf, neither raises
over_std(std_) ==
    IF std_ = "nan" THEN "nan" ELSE IF std_ = "zero" THEN "inf" ELSE "number"

\* totals.sort_values('Date'), by insertion: rows of the same date keep
\* their file order
RECURSIVE sort_values(_)
sort_values(rows) ==
    IF Len(rows) <= 1 THEN rows
    ELSE LET first == Head(rows)
             rest == sort_values(Tail(rows))
             before == SelectSeq(rest, LAMBDA r : r.Date < first.Date)
             after == SelectSeq(rest, LAMBDA r : r.Date >= first.Date)
         IN  before \o <<first>> \o after

\* the smaller of two fractions with positive denominators
frac_min(a, b) == IF a[1] * b[2] <= b[1] * a[2] THEN a ELSE b

\* the drawdown measured from the maximum of the whole series instead of
\* the running maximum
RECURSIVE min_drawdown_whole_max(_, _, _, _)
min_drawdown_whole_max(equity_series, i, top, lowest) ==
    IF i > Len(equity_series) THEN lowest
    ELSE LET whole_max == CHOOSE m \in {equity_series[k] :
                                          k \in 1..Len(equity_series)} :
                              \A k \in 1..Len(equity_series) :
                                  equity_series[k] <= m
             drawdown == <<equity_series[i] - whole_max, whole_max>>
         IN  min_drawdown_whole_max(equity_series, i + 1, whole_max,
                                    frac_min(drawdown, lowest))

\* (equity_series - running_max) / running_max from row i on, and its
\* minimum; top is the running maximum of the rows before i
RECURSIVE min_drawdown(_, _, _, _)
min_drawdown(equity_series, i, top, lowest) ==
    IF i > Len(equity_series) THEN lowest
    ELSE LET running_max == IF equity_series[i] > top
                            THEN equity_series[i] ELSE top
             drawdown == <<equity_series[i] - running_max, running_max>>
         IN  min_drawdown(equity_series, i + 1, running_max,
                          frac_min(drawdown, lowest))

\* lines 195-217 of calculate_portfolio_metrics on the equity series.  The
\* Sharpe ratio is the literal 0 unless the volatility is a positive number
\* (nan > 0 is false).
equity_metrics(equity_series) ==
    LET daily_returns == pct_change(equity_series)
        volatility == std(daily_returns)
    IN  [total_return |-> <<equity_series[Len(equity_series)] - InitialCash,
                            InitialCash>>,
         volatility |-> volatility,
         sharpe_ratio |-> IF volatility = "positive" THEN "number" ELSE "0",
         max_drawdown |-> min_drawdown(equity_series, 1, 0, <<0, 1>>),
         current_equity |-> equity_series[Len(equity_series)],
         trading_days |-> Len(equity_series)]

\* AIPortfolioManager.calculate_portfolio_metrics; None is the empty dict
calculate_portfolio_metrics(portfolio_df) ==
    IF Len(portfolio_df) = 0 \/ Len(TotalRows(portfolio_df)) = 0 THEN None
    ELSE Some(equity_metrics(
                total_equity(sort_values(TotalRows(portfolio_df)))))

\* AIPortfolioManager.generate_daily_report, lines 221-243: what it computes
\* and the Sharpe ratio it prints, metrics.get('sharpe_ratio', 0)
generate_daily_report(portfolio_df, feed) ==
    LET current_positions == get_current_positions(portfolio_df)
        tickers == {current_positions.positions[i].ticker :
                      i \in 1..Len(current_positions.positions)}
                   \cup Benchmarks
        market_data == fetch_market_data(tickers, feed)
        stop_losses == check_stop_losses(current_positions.positions,
                                         market_data)
        metrics == calculate_portfolio_metrics(portfolio_df)
    IN  [current_positions |-> current_positions,
         market_data |-> market_data,
         stop_losses |-> stop_losses,
         metrics |-> metrics,
         sharpe_ratio |-> IF metrics = None THEN "0"
                          ELSE metrics[1].sharpe_ratio]

\* ------------------------------------------------- the script's metrics
\* daily_results_with_llm, lines 310-331, on a history with a TOTAL row
portfolio_performance(hist) ==
    LET chatgpt_totals == TotalRows(hist)
        equity_series == EquitySeries(hist)
        final_date == CHOOSE d \in {chatgpt_totals[i].Date :
                                      i \in 1..Len(chatgpt_totals)} :
                        \A i \in 1..Len(chatgpt_totals) :
                            chatgpt_totals[i].Date <= d
        final_value == SelectSeq(chatgpt_totals,
                                 LAMBDA r : r.Date = final_date)
        daily_pct == pct_change(equity_series)
        negative_pct == SelectSeq(daily_pct, LAMBDA r : r[1] < 0)
    IN  [final_equity |-> final_value[1].Equity[1],
         total_return |-> <<equity_series[Len(equity_series)]
                              - equity_series[1], equity_series[1]>>,
         n_days |-> Len(daily_pct),
         sharpe_total |-> over_std(std(daily_pct)),
         sortino_total |-> over_std(std(negative_pct))]

\* the price loop of lines 290-307 from stock i on: the first download that
\* fails (or has fewer than two closes) raises and ends the function
RECURSIVE price_loop(_, _, _, _)
price_loop(stocks, i, answered, printed) ==
    IF i > Len(stocks) THEN [err |-> "ok", printed |-> printed]
    ELSE IF ~answered[stocks[i]]
         THEN [err |-> "Exception", printed |-> printed]
         ELSE price_loop(stocks, i + 1, answered, Append(printed, stocks[i]))

\* daily_results_with_llm: the price loop, the metrics printed from the
\* history file, the index comparison.  get_llm_stock_research catches
\* every failure of the provider and its result is not used: research_ok
\* only decides whether the research file of each portfolio ticker the loop
\* got to is written.
daily_results_with_llm(chatgpt_portfolio, hist, answered, spx_ok, use_llm_research, research_ok) ==
    LET stocks == [i \in 1..Len(chatgpt_portfolio) |->
                      chatgpt_portfolio[i].ticker] \o BenchmarkOrder
        loop == price_loop(stocks, 1, answered, <<>>)
        research == IF \/ ~use_llm_research
                       \/ \A k \in 1..Len(loop.printed) :
                             loop.printed[k] \in Benchmarks
                    THEN ""
                    ELSE IF research_ok THEN "saved" ELSE "failed"
        ended(e, r, m) == [err |-> e, printed |-> loop.printed,
                           research |-> r, metrics |-> m]
    IN  IF loop.err # "ok" THEN ended(loop.err, research, None)
        ELSE IF Len(hist) = 0 THEN ended("FileNotFoundError", research, None)
        ELSE IF Len(TotalRows(hist)) = 0
             THEN ended("IndexError", research, None)
        ELSE IF ~spx_ok
             THEN ended("IndexError", research,
                        Some(portfolio_performance(hist)))
        ELSE ended("ok", research, Some(portfolio_performance(hist)))

\* ------------------------------------------------------------ the script
NoOp == [kind |-> "init", ticker |-> "", shares |-> 0, price |-> 0,
         err |-> "ok", prompted |-> FALSE, llm |-> ""]

Init ==
    /\ today = 1
    /\ cash \in StartCash
    /\ portfolio \in StartPortfolio
    /\ tradeLog = <<>>
    /\ history = <<>>
    /\ lastOp = NoOp
    /\ beforeBuy = None
    /\ lastReport = None
    /\ lastResults = None
    /\ reportFile = None

\* the script started with two positions, its cash a whole number of cents
\* or with the fraction of a cent that a buy at a fractional price leaves
InitPair ==
    /\ today = 1
    /\ cash \in StartCash \cup {c + 1 : c \in StartCash}
    /\ portfolio = StartPair
    /\ tradeLog = <<>>
    /\ history = <<>>
    /\ lastOp = NoOp
    /\ beforeBuy = None
    /\ lastReport = None
    /\ lastResults = None
    /\ reportFile = None

\* cash, chatgpt_portfolio = log_manual_buy(...)
ManualBuy ==
    \E buy_price \in PriceArgs, shares \in ShareArgs, ticker \in Tickers,
       stoploss \in StopArgs, check \in {"", "1"}, data_empty \in BOOLEAN :
      /\ Len(tradeLog) < MaxLog
      /\ Len(portfolio) < MaxPositions
      /\ LET r == log_manual_buy(buy_price, shares, ticker, cash, stoploss,
                                 portfolio, tradeLog, today, check, data_empty)
         IN  /\ cash' = r.cash
             /\ portfolio' = r.portfolio
             /\ tradeLog' = r.log
             /\ lastOp' = [kind |-> "buy", ticker |-> ticker,
                           shares |-> shares, price |-> buy_price,
                           err |-> r.err, prompted |-> TRUE, llm |-> ""]
             /\ beforeBuy' = IF r.err = "ok"
                             THEN Some([cash |-> cash, portfolio |-> portfolio])
                             ELSE None
      /\ lastReport' = None
      /\ lastResults' = None
      /\ UNCHANGED <<today, history, reportFile>>

\* cash, chatgpt_portfolio = log_manual_sell(...)
ManualSell ==
    \E sell_price \in PriceArgs, shares_sold \in ShareArgs,
       ticker \in Tickers, reason \in {"profit", "1"} :
      /\ Len(tradeLog) < MaxLog
      /\ LET r == log_manual_sell(sell_price, shares_sold, ticker, cash,
                                  portfolio, tradeLog, today, reason)
         IN  /\ cash' = r.cash
             /\ portfolio' = r.portfolio
             /\ tradeLog' = r.log
             /\ lastOp' = [kind |-> "sell", ticker |-> ticker,
                           shares |-> shares_sold, price |-> sell_price,
                           err |-> r.err, prompted |-> r.prompted,
                           llm |-> ""]
      /\ beforeBuy' = None
      /\ lastReport' = None
      /\ lastResults' = None
      /\ UNCHANGED <<today, history, reportFile>>

\* the feed is asked for the tickers of the portfolio rows only
Held(pf) == {pf[i].ticker : i \in 1..Len(pf)}
Feeds(ts) == [ts -> {None} \cup {Some(c) : c \in CloseVals}]

\* chatgpt_portfolio = process_portfolio_with_llm_analysis(
\*                         chatgpt_portfolio, cash, use_llm=True)
DailyRun ==
    \E feed \in Feeds(Held(portfolio)), llm_ok \in BOOLEAN :
      LET r == process_portfolio_with_llm_analysis(portfolio, cash, history,
                                                   tradeLog, today, feed,
                                                   TRUE, llm_ok)
      IN  /\ Len(r.log) <= MaxLog
          /\ portfolio' = r.portfolio
          /\ history' = r.history
          /\ tradeLog' = r.log
          /\ lastOp' = [NoOp EXCEPT !.kind = "run", !.llm = r.llm,
                                     !.err = r.err]
          /\ beforeBuy' = None
          /\ lastReport' = None
          /\ lastResults' = None
          /\ UNCHANGED <<today, cash, reportFile>>

\* today = datetime.today().strftime('%Y-%m-%d') of a later invocation
NewDay ==
    /\ today < MaxDay
    /\ today' = today + 1
    /\ lastOp' = [NoOp EXCEPT !.kind = "day"]
    /\ beforeBuy' = None
    /\ lastReport' = None
    /\ lastResults' = None
    /\ reportFile' = None
    /\ UNCHANGED <<cash, portfolio, tradeLog, history>>

\* the feed as fetch_market_data sees it: a raw close per requested ticker,
\* None for an empty answer or a failed download; the three benchmark
\* downloads succeed or fail together
ReportFeeds(ts) ==
    {f \in [ts \cup Benchmarks -> {None} \cup {Some(c) : c \in CloseVals}] :
        /\ \A b \in Benchmarks \ ts : f[b] \in {None, Some(3 * Sub)}
        /\ \A a, b \in Benchmarks \ ts : f[a] = f[b]}

\* a report that executes the first stop-loss it finds: a sale is written to
\* the trade log
GenerateDailyReportSelling ==
    \E feed \in ReportFeeds(HistoryTickers(history)) :
      LET r == generate_daily_report(history, feed)
      IN  /\ lastReport' = Some(r)
          /\ tradeLog' = IF Len(r.stop_losses) > 0 /\ Len(tradeLog) < MaxLog
                          THEN log_sell(tradeLog, today,
                                        r.stop_losses[1].ticker,
                                        r.stop_losses[1].shares[1],
                                        r.stop_losses[1].current_price, 0, 0)
                          ELSE tradeLog
          /\ lastOp' = [NoOp EXCEPT !.kind = "report"]
          /\ beforeBuy' = None
          /\ lastResults' = None
          /\ UNCHANGED <<today, cash, portfolio, history, reportFile>>

\* report = manager.generate_daily_report(portfolio_df), on the history file
GenerateDailyReport ==
    \E feed \in ReportFeeds(HistoryTickers(history)) :
      /\ lastReport' = Some(generate_daily_report(history, feed))
      /\ lastOp' = [NoOp EXCEPT !.kind = "report"]
      /\ beforeBuy' = None
      /\ lastResults' = None
      /\ UNCHANGED <<today, cash, portfolio, tradeLog, history, reportFile>>

\* AIPortfolioManager.__init__, lines 28-38: the use_ai the manager is left
\* with; it is switched off when neither provider can be set up
manager_init(use_ai, ollama_ok, gemini_ok) ==
    use_ai /\ (ollama_ok \/ gemini_ok)

\* AIPortfolioManager.analyze_portfolio_with_ai: the text of the provider,
\* None when the AI is off or the call fails (every Exception is caught)
analyze_portfolio_with_ai(use_ai, ok) ==
    IF ~use_ai THEN None ELSE IF ok THEN Some("analysis") ELSE None

\* AIPortfolioManager.generate_trading_strategy, the same way
generate_trading_strategy(use_ai, ok) ==
    IF ~use_ai THEN None ELSE IF ok THEN Some("strategy") ELSE None

\* `x or ""` of line 296
or_empty(x) == IF x = None THEN "" ELSE x[1]

\* AIPortfolioManager.run_daily_analysis.  ai_analysis and strategy are
\* assigned inside `if self.use_ai:` only; line 296 reads both, and reading
\* a local that was never assigned raises UnboundLocalError before the file
\* is opened.
run_daily_analysis(portfolio_df, feed, use_ai, analysis_ok, strategy_ok) ==
    LET daily_report == generate_daily_report(portfolio_df, feed)
        ai_analysis == analyze_portfolio_with_ai(use_ai, analysis_ok)
        strategy == generate_trading_strategy(use_ai, strategy_ok)
    IN  IF ~use_ai
        THEN [daily_report |-> daily_report, err |-> "UnboundLocalError",
              file |-> None]
        ELSE [daily_report |-> daily_report, err |-> "ok",
              file |-> Some([ai_analysis |-> or_empty(ai_analysis),
                             strategy |-> or_empty(strategy)])]

\* main() of portfolio_manager.py: AIPortfolioManager(use_ai=...) and
\* manager.run_daily_analysis() on the history file.  A run that raises
\* leaves the file of an earlier run as it was.
RunDailyAnalysis ==
    \E use_ai \in BOOLEAN, ollama_ok \in BOOLEAN, gemini_ok \in BOOLEAN,
       analysis_ok \in BOOLEAN, strategy_ok \in BOOLEAN,
       feed \in ReportFeeds(HistoryTickers(history)) :
      LET self_use_ai == manager_init(use_ai, ollama_ok, gemini_ok)
          r == run_daily_analysis(history, feed, self_use_ai, analysis_ok,
                                  strategy_ok)
      IN  \* an input that is never read takes one value only
          /\ ~use_ai => ollama_ok
          /\ (~use_ai \/ ollama_ok) => gemini_ok
          /\ ~self_use_ai => analysis_ok /\ strategy_ok
          /\ lastReport' = Some(r.daily_report)
          /\ reportFile' = IF r.err = "ok" THEN r.file ELSE reportFile
          /\ lastOp' = [NoOp EXCEPT !.kind = "analysis", !.err = r.err,
                                     !.llm = IF ~use_ai THEN "disabled"
                                             ELSE IF ~self_use_ai
                                                  THEN "unavailable"
                                             ELSE IF analysis_ok /\ strategy_ok
                                                  THEN "saved"
                                             ELSE "failed"]
          /\ beforeBuy' = None
          /\ lastResults' = None
          /\ UNCHANGED <<today, cash, portfolio, tradeLog, history>>

\* which downloads of the price loop answer; the three benchmark downloads
\* succeed or fail together
ResultFeeds(ts) ==
    {f \in [ts \cup Benchmarks -> BOOLEAN] :
        \A a, b \in Benchmarks \ ts : f[a] = f[b]}

\* daily_results_with_llm(chatgpt_portfolio, cash, use_llm_research=True)
DailyResults ==
    \E answered \in ResultFeeds(Held(portfolio)),
       spx_ok \in BOOLEAN, research_ok \in BOOLEAN :
      /\ lastResults' =
           Some([answered |-> {t \in Held(portfolio) : answered[t]},
                 out |-> daily_results_with_llm(portfolio, history, answered,
                                                spx_ok, TRUE, research_ok)])
      /\ lastOp' = [NoOp EXCEPT !.kind = "results"]
      /\ beforeBuy' = None
      /\ lastReport' = None
      /\ UNCHANGED <<today, cash, portfolio, tradeLog, history, reportFile>>

NextTrades == ManualBuy \/ ManualSell

NextDaily == DailyRun \/ NewDay \/ GenerateDailyReport

Next ==
    \/ ManualBuy \/ ManualSell \/ DailyRun \/ NewDay
    \/ GenerateDailyReport \/ DailyResults \/ RunDailyAnalysis

\* every operation, in any order
Spec == Init /\ [][Next]_vars

\* the manual trades alone
SpecTrades == Init /\ [][NextTrades]_vars

\* the daily batch and the report alone
SpecDaily == Init /\ [][NextDaily]_vars

NextLedger == ManualBuy \/ ManualSell \/ DailyRun

\* the manual trades and the daily batch of one day, in any order
SpecLedger == Init /\ [][NextLedger]_vars

\* the steps that write chatgpt_trade_log.csv
NextLogWrites ==
    \/ ManualBuy /\ tradeLog' # tradeLog
    \/ ManualSell /\ tradeLog' # tradeLog
    \/ DailyRun /\ tradeLog' # tradeLog

SpecLogWrites == Init /\ [][NextLogWrites]_vars

\* the daily batch of one day on a script that holds two positions
SpecPair == InitPair /\ [][DailyRun]_vars

NextResults == DailyRun \/ DailyResults

\* the two calls of the script's main block, on two positions
SpecResults == InitPair /\ [][NextResults]_vars

NextSellDays == ManualSell \/ DailyRun \/ NewDay \/ GenerateDailyReport

\* sales between the daily runs of several days, and the report on the
\* history they leave
SpecSellDays == Init /\ [][NextSellDays]_vars

NextAnalysis == DailyRun \/ RunDailyAnalysis

\* the daily batch of the script and the manager's analysis of the history
SpecAnalysis == Init /\ [][NextAnalysis]_vars

\* ================================================================ claims
PositionsOf(pf, t) == SelectSeq(pf, LAMBDA p : p.ticker = t)

RowsOf(hist, date) == SelectSeq(hist, LAMBDA r : r.Date = date)

RowsNotOf(hist, date) == SelectSeq(hist, LAMBDA r : r.Date # date)

Unchanged == cash' = cash /\ portfolio' = portfolio /\ tradeLog' = tradeLog

\* value at today's prices of the positions pf[i..], rows[i] being the
\* snapshot row of pf[i]; a position without a price has no value to add
RECURSIVE OpenValue(_, _, _)
OpenValue(pf, rows, i) ==
    IF i > Len(pf) THEN 0
    ELSE (IF rows[i].Price = None THEN 0
          ELSE pf[i].shares * rows[i].Price[1])
         + OpenValue(pf, rows, i + 1)

\* C1: after a daily run the TOTAL row of the day has
\* total_equity = cash_balance + the sum of shares x current_price over the
\* positions that are open after the run.
C1_TotalEquityReconciles ==
    lastOp.kind = "run" =>
        LET rows == RowsOf(history, today)
            total == rows[Len(rows)]
        IN  total.Equity[1] = total.Cash[1] + OpenValue(portfolio, rows, 1)

\* C2: a sell of more shares than the position holds fails with an error and
\* leaves cash, the positions and the trade log as they were.
C2_OversellRejected ==
    [][ (LET pos == PositionsOf(portfolio, lastOp'.ticker)
         IN  /\ lastOp'.kind = "sell"
             /\ Len(pos) >= 1
             /\ \A i \in 1..Len(pos) : lastOp'.shares > pos[i].shares)
        => (lastOp'.err = "ValueError" /\ Unchanged) ]_vars

C2_Witness ==
    LET pos == PositionsOf(portfolio, lastOp.ticker)
    IN  /\ lastOp.kind = "sell"
        /\ lastOp.err = "ValueError"
        /\ Len(pos) = 1
        /\ lastOp.shares > pos[1].shares
        /\ Len(tradeLog) > 0

\* C3: a buy whose cost shares x buy_price exceeds the cash fails with an
\* error and is aborted: no position added, no cash deducted, no record
\* appended.
C3_BuyOverCashRejected ==
    [][ (lastOp'.kind = "buy" /\ lastOp'.shares * lastOp'.price > cash)
        => (lastOp'.err # "ok" /\ Unchanged) ]_vars

\* C4: the cash balance is never negative.
C4_CashNonNegative == cash >= 0

\* C5: a buy of a ticker that is already open fails and leaves the ledger
\* unchanged, so no ticker is open twice.
C5_DuplicateBuyRejected ==
    [][ (lastOp'.kind = "buy" /\ lastOp'.ticker \in Held(portfolio))
        => (lastOp'.err # "ok" /\ Unchanged) ]_vars

\* C6: a sell of a ticker that is not open fails with an error before any
\* prompt or write, leaving cash, positions and trade log unchanged.
C6_UnknownTickerRejected ==
    [][ (lastOp'.kind = "sell" /\ lastOp'.ticker \notin Held(portfolio))
        => (lastOp'.err = "KeyError" /\ ~lastOp'.prompted /\ Unchanged) ]_vars

C6_Witness ==
    /\ lastOp.kind = "sell"
    /\ lastOp.err = "KeyError"
    /\ lastOp.ticker \notin Held(portfolio)
    /\ Len(portfolio) > 0

\* C7: after a successful partial sell the returned portfolio holds the
\* ticker with shares = old shares - shares_sold, cost_basis = remaining
\* shares x buy_price, and the buy_price it had.
C7_PartialSellReducesPosition ==
    [][ (LET pos == PositionsOf(portfolio, lastOp'.ticker)
         IN  /\ lastOp'.kind = "sell"
             /\ lastOp'.err = "ok"
             /\ Len(pos) = 1
             /\ 0 < lastOp'.shares
             /\ lastOp'.shares < pos[1].shares)
        => (LET old == PositionsOf(portfolio, lastOp'.ticker)[1]
                now == PositionsOf(portfolio', lastOp'.ticker)
            IN  /\ Len(now) = 1
                /\ now[1].shares = old.shares - lastOp'.shares
                /\ now[1].cost_basis = now[1].shares * old.buy_price
                /\ now[1].buy_price = old.buy_price) ]_vars

\* C8: after a successful sell of exactly all shares of a position the
\* ticker is no longer among the returned positions, and every other
\* position is there unchanged.
C8_FullSellRemovesPosition ==
    [][ (LET pos == PositionsOf(portfolio, lastOp'.ticker)
         IN  /\ lastOp'.kind = "sell"
             /\ lastOp'.err = "ok"
             /\ Len(pos) = 1
             /\ lastOp'.shares = pos[1].shares)
        => (/\ lastOp'.ticker \notin Held(portfolio')
            /\ Len(portfolio') = Len(portfolio) - 1
            /\ \A i \in 1..Len(portfolio) :
                 portfolio[i].ticker # lastOp'.ticker
                 => \E j \in 1..Len(portfolio') :
                      portfolio'[j] = portfolio[i]) ]_vars

C8_Witness ==
    /\ lastOp.kind = "sell"
    /\ lastOp.err = "ok"
    /\ lastOp.ticker \notin Held(portfolio)
    /\ Len(portfolio) > 0

\* C9: a buy that succeeds, followed at once by a sell of the same shares of
\* the same ticker at the same price, gives back the cash and the positions
\* of before the buy.
C9_BuySellRoundTrip ==
    [][ (/\ lastOp.kind = "buy" /\ lastOp.err = "ok"
         /\ lastOp'.kind = "sell"
         /\ lastOp'.ticker = lastOp.ticker
         /\ lastOp'.shares = lastOp.shares
         /\ lastOp'.price = lastOp.price
         /\ lastOp'.err # "SystemExit")
        => (/\ lastOp'.err = "ok"
            /\ cash' = beforeBuy[1].cash
            /\ portfolio' = beforeBuy[1].portfolio) ]_vars

\* C10: a position is flagged by the stop-loss check exactly when a current
\* price is available and current_price <= stop_loss, in the rows of the
\* daily run and in the list check_stop_losses returns.
C10_StopLossIffAtOrBelow ==
    /\ \A i \in 1..Len(history) :
         history[i].Ticker # "TOTAL" =>
           ((history[i].Action = "SELL - Stop Loss Triggered")
              <=> (/\ history[i].Price # None
                   /\ history[i].Price[1] <= history[i].StopLoss[1]))
    /\ lastReport # None =>
         LET pos == lastReport[1].current_positions.positions
             md == lastReport[1].market_data
             hits == lastReport[1].stop_losses
         IN  /\ \A i \in 1..Len(pos) :
                  (\E j \in 1..Len(hits) : hits[j].ticker = pos[i].ticker)
                    <=> (/\ pos[i].ticker \in DOMAIN md
                         /\ md[pos[i].ticker].current_price
                              <= pos[i].stop_loss[1])
             /\ \A j \in 1..Len(hits) :
                  \E i \in 1..Len(pos) : pos[i].ticker = hits[j].ticker

C10_Witness ==
    /\ \E i \in 1..Len(history) :
         /\ history[i].Ticker # "TOTAL"
         /\ history[i].Price = history[i].StopLoss
         /\ history[i].Action = "SELL - Stop Loss Triggered"
    /\ \E i \in 1..Len(history) :
         /\ history[i].Ticker # "TOTAL"
         /\ history[i].Price # None
         /\ history[i].Price[1] > history[i].StopLoss[1]
         /\ history[i].Action = "HOLD"
    /\ lastReport # None
    /\ \E j \in 1..Len(lastReport[1].stop_losses) :
         lastReport[1].stop_losses[j].current_price
           = lastReport[1].stop_losses[j].stop_loss

SellAction == "SELL - Stop Loss Triggered"

\* price x shares summed over the rows from i on that the run marked as sold
RECURSIVE SoldProceeds(_, _)
SoldProceeds(rows, i) ==
    IF i > Len(rows) THEN 0
    ELSE (IF rows[i].Action = SellAction
          THEN rows[i].Price[1] * rows[i].Shares[1] ELSE 0)
         + SoldProceeds(rows, i + 1)

\* C11: when a daily run triggers the stop-loss of a position at price p,
\* the ledger the caller holds after the run no longer has the position and
\* its cash has grown by p x shares.
C11_StopLossLeavesLedger ==
    [][ lastOp'.kind = "run" =>
          LET rows == RowsOf(history', today)
          IN  /\ \A i \in 1..Len(rows) :
                   rows[i].Action = SellAction
                   => rows[i].Ticker \notin Held(portfolio')
              /\ cash' = cash + SoldProceeds(rows, 1) ]_vars

\* the cells of column col summed over the rows from i on whose action is
\* HOLD
RECURSIVE HeldSum(_, _, _)
HeldSum(rows, col, i) ==
    IF i > Len(rows) THEN 0
    ELSE (IF rows[i].Action = "HOLD" THEN rows[i][col][1] ELSE 0)
         + HeldSum(rows, col, i + 1)

\* C12: in the TOTAL row of a daily run, total_value and pnl are the sums
\* over the HOLD rows only, and cash_balance is the starting cash plus
\* price x shares of every position sold by its stop-loss.
C12_TotalRowSumsHeldOnly ==
    lastOp.kind = "run" =>
        LET rows == RowsOf(history, today)
            total == rows[Len(rows)]
        IN  /\ total.Ticker = "TOTAL"
            /\ total.Value = Some(Round2(HeldSum(rows, "Value", 1)))
            /\ total.PnL = Some(Round2(HeldSum(rows, "PnL", 1)))
            /\ total.Cash = Some(Round2(cash + SoldProceeds(rows, 1)))

C12_Witness ==
    LET rows == RowsOf(history, today)
    IN  /\ lastOp.kind = "run"
        /\ \E i \in 1..Len(rows) : rows[i].Action = SellAction
        /\ \E i \in 1..Len(rows) :
             rows[i].Action = "HOLD" /\ rows[i].PnL[1] # 0

\* the history file after a daily run of today on history file hist with
\* price feed `feed`
HistoryAfterRun(hist, feed) ==
    process_portfolio_with_llm_analysis(portfolio, cash, hist, tradeLog,
                                        today, feed, TRUE, TRUE).history

\* C13: a daily run repeated for the same date with the same inputs leaves
\* the history as the first run left it: the same rows for the date, none
\* of them twice, and the rows of every other date untouched.
C13_RerunIdempotent ==
    \A feed \in Feeds(Held(portfolio)) :
        LET once == HistoryAfterRun(history, feed)
            again == HistoryAfterRun(once, feed)
        IN  /\ RowsOf(again, today) = RowsOf(once, today)
            /\ Len(RowsOf(again, today)) = Len(portfolio) + 1
            /\ RowsNotOf(again, today) = RowsNotOf(history, today)

\* a date run twice (its stop-loss sale is in the log twice) on a history
\* that holds an earlier date
C13_Witness ==
    /\ lastOp.kind = "run"
    /\ \E i, j \in 1..Len(tradeLog) :
         /\ i < j
         /\ tradeLog[i].Date = today
         /\ tradeLog[j].Date = today
         /\ tradeLog[i].Ticker = tradeLog[j].Ticker
    /\ \E i \in 1..Len(history) : history[i].Date < today
    /\ Len(RowsOf(history, today)) = Len(portfolio) + 1

\* C14: the history holds, for every date it has rows of, exactly one TOTAL
\* row and one row per ticker, and the TOTAL rows the equity series is
\* drawn from come in strictly increasing date order.
C14_OneRowPerTickerPerDate ==
    /\ \A i \in 1..Len(history) :
         /\ \E j \in 1..Len(history) :
              history[j].Date = history[i].Date /\ history[j].Ticker = "TOTAL"
         /\ \A j \in 1..Len(history) :
              (/\ history[j].Date = history[i].Date
               /\ history[j].Ticker = history[i].Ticker) => j = i
    /\ LET totals == TotalRows(history)
       IN  \A i \in 1..Len(totals) - 1 : totals[i].Date < totals[i + 1].Date

\* C15: the trade log is append-only: whatever a buy, a sell or a stop-loss
\* sell does, the log of before is a prefix of the log of after.
C15_TradeLogAppendOnly ==
    [][ /\ Len(tradeLog') >= Len(tradeLog)
        /\ SubSeq(tradeLog', 1, Len(tradeLog)) = tradeLog ]_vars

\* a stop-loss record written after a manual record
C15_Witness ==
    /\ lastOp.kind = "run"
    /\ Len(tradeLog) >= 2
    /\ tradeLog[Len(tradeLog)].Reason = "AUTOMATED SELL - STOPLOSS TRIGGERED"
    /\ tradeLog[1].Reason # "AUTOMATED SELL - STOPLOSS TRIGGERED"

AutoSell(rec) == rec.Reason = "AUTOMATED SELL - STOPLOSS TRIGGERED"

\* C16: every executed trade is recorded exactly once.  Where nothing is
\* ever bought, a ticker is one position and its shares can be sold by the
\* stop-loss once: the log holds at most one stop-loss record per ticker,
\* however often the daily run is repeated.
C16_StopLossLoggedOnce ==
    \A i, j \in 1..Len(tradeLog) :
        (/\ AutoSell(tradeLog[i])
         /\ AutoSell(tradeLog[j])
         /\ tradeLog[i].Ticker = tradeLog[j].Ticker) => i = j

\* C17: when the feed has no data for a ticker, the daily run gives that
\* ticker a NO DATA row whose current price, total value and PnL are empty
\* cells, logs no sell for it, still processes every other ticker and still
\* writes the TOTAL row.
C17_NoDataRowAndRunGoesOn ==
    \A feed \in Feeds(Held(portfolio)) :
        LET r == process_portfolio_with_llm_analysis(
                     portfolio, cash, history, tradeLog, today, feed,
                     TRUE, TRUE)
            rows == RowsOf(r.history, today)
            new == SubSeq(r.log, Len(tradeLog) + 1, Len(r.log))
        IN  /\ Len(rows) = Len(portfolio) + 1
            /\ rows[Len(rows)].Ticker = "TOTAL"
            /\ rows[Len(rows)].Equity # None
            /\ \A i \in 1..Len(portfolio) :
                 /\ rows[i].Ticker = portfolio[i].ticker
                 /\ feed[portfolio[i].ticker] = None
                    => /\ rows[i].Action = "NO DATA"
                       /\ rows[i].Price = None
                       /\ rows[i].Value = None
                       /\ rows[i].PnL = None
                       /\ \A k \in 1..Len(new) :
                            new[k].Ticker # portfolio[i].ticker
                 /\ feed[portfolio[i].ticker] # None
                    => /\ rows[i].Action \in {"HOLD", SellAction}
                       /\ rows[i].Price
                            = Some(Round2(feed[portfolio[i].ticker][1]))

\* a run that had no data for the first ticker and sold the second
C17_Witness ==
    LET rows == RowsOf(history, today)
    IN  /\ lastOp.kind = "run"
        /\ Len(rows) = 3
        /\ rows[1].Action = "NO DATA"
        /\ rows[2].Action = SellAction
        /\ rows[3].Ticker = "TOTAL"
        /\ Len(tradeLog) = 1
        /\ tradeLog[1].Ticker = rows[2].Ticker

\* C18: a failing price-feed call for one portfolio ticker does not keep
\* the run from processing the other portfolio tickers, in
\* fetch_market_data and in the price loop of daily_results_with_llm.
C18_FeedFailureSkipsOneTicker ==
    /\ \A feed \in ReportFeeds(Held(portfolio)) :
         \A t \in Held(portfolio) :
            feed[t] # None
            => t \in DOMAIN fetch_market_data(Held(portfolio), feed)
    /\ lastResults # None =>
         LET printed == lastResults[1].out.printed
         IN  \A t \in lastResults[1].answered :
                \E k \in 1..Len(printed) : printed[k] = t

\* the outcome of process_portfolio_with_llm_analysis on today's state
RunOutcome(feed, llm_ok) ==
    process_portfolio_with_llm_analysis(portfolio, cash, history, tradeLog,
                                        today, feed, TRUE, llm_ok)

\* C19: a failure of the text-generation provider aborts nothing: the daily
\* run has written the day's snapshot and returns to its caller, which goes
\* on to the metrics, and the snapshot and the metrics are the same as with
\* a provider that answers.
C19_LlmFailureNotFatal ==
    /\ lastOp.kind = "run" =>
         /\ lastOp.err = "ok"
         /\ \E i \in 1..Len(history) :
              history[i].Date = today /\ history[i].Ticker = "TOTAL"
    /\ \A feed \in Feeds(Held(portfolio)) :
         /\ RunOutcome(feed, FALSE).history = RunOutcome(feed, TRUE).history
         /\ RunOutcome(feed, FALSE).log = RunOutcome(feed, TRUE).log
         /\ RunOutcome(feed, FALSE).err = "ok"
    /\ \A answered \in ResultFeeds(Held(portfolio)), spx_ok \in BOOLEAN :
         LET failing == daily_results_with_llm(portfolio, history, answered,
                                               spx_ok, TRUE, FALSE)
             working == daily_results_with_llm(portfolio, history, answered,
                                               spx_ok, TRUE, TRUE)
         IN  /\ failing.err = working.err
             /\ failing.printed = working.printed
             /\ failing.metrics = working.metrics

\* a run whose LLM analysis failed, with the snapshot of the day written
C19_Witness ==
    /\ lastOp.kind = "run"
    /\ lastOp.llm = "failed"
    /\ lastOp.err = "ok"
    /\ Len(RowsOf(history, today)) = Len(portfolio) + 1

\* the daily returns of the history's equity series are none, or all the
\* same (standard deviation 0)
DegenerateReturns(hist) ==
    LET daily_pct == pct_change(EquitySeries(hist))
    IN  Len(daily_pct) = 0 \/ std(daily_pct) = "zero"

\* a Sharpe ratio given as a number
Numeric(sharpe) == sharpe \in {"0", "number", "inf"}

\* C20: on a history whose daily returns are none or have standard
\* deviation 0, no Sharpe ratio comes out as a number: neither the one
\* generate_daily_report prints nor the one daily_results_with_llm prints.
C20_DegenerateSharpeUndefined ==
    (Len(TotalRows(history)) > 0 /\ DegenerateReturns(history)) =>
        /\ lastReport # None => ~Numeric(lastReport[1].sharpe_ratio)
        /\ ~Numeric(portfolio_performance(history).sharpe_total)

\* the history's equity series has no daily return below zero
NoNegativeReturn(hist) ==
    LET daily_pct == pct_change(EquitySeries(hist))
    IN  \A i \in 1..Len(daily_pct) : daily_pct[i][1] >= 0

\* what line 330 prints for a float, a number or not: nan, inf or digits
PrintedAsFloat(ratio) == ratio \in {"nan", "inf", "number"}

\* C21: when the equity series of the history has no negative daily return,
\* daily_results_with_llm gives the Sortino ratio as an error, not as a
\* float that it prints.
C21_SortinoUndefinedIsError ==
    (/\ lastResults # None
     /\ lastResults[1].out.metrics # None
     /\ NoNegativeReturn(history)) =>
        ~PrintedAsFloat(lastResults[1].out.metrics[1].sortino_total)

\* no value of the series is below the largest value before it
NeverFalls(equity_series) ==
    \A i, j \in 1..Len(equity_series) :
        j < i => equity_series[i] >= equity_series[j]

\* C22: for the equity series of a history, all values positive, the
\* max_drawdown that calculate_portfolio_metrics gives to the report is at
\* most 0, and it is 0 when the series never falls below its running
\* maximum (a flat series among them).
C22_MaxDrawdownNonPositive ==
    (lastReport # None /\ lastReport[1].metrics # None) =>
        LET equity_series == EquitySeries(history)
            max_drawdown == lastReport[1].metrics[1].max_drawdown
        IN  (\A i \in 1..Len(equity_series) : equity_series[i] > 0) =>
                /\ max_drawdown[2] > 0
                /\ max_drawdown[1] <= 0
                /\ NeverFalls(equity_series) => max_drawdown[1] = 0

\* a report on a history of two days whose equity rose: the drawdown is 0
C22_Witness ==
    /\ lastReport # None
    /\ lastReport[1].metrics # None
    /\ Len(EquitySeries(history)) >= 2
    /\ EquitySeries(history)[2] > EquitySeries(history)[1]
    /\ EquitySeries(history)[1] > 0
    /\ lastReport[1].metrics[1].max_drawdown[1] = 0

\* a report on a history whose equity fell: the drawdown is below 0
C22_WitnessFall ==
    /\ lastReport # None
    /\ lastReport[1].metrics # None
    /\ Len(EquitySeries(history)) >= 2
    /\ EquitySeries(history)[2] < EquitySeries(history)[1]
    /\ lastReport[1].metrics[1].max_drawdown[1] < 0

\* two fractions with positive denominators are the same number
frac_eq(a, b) == a[1] * b[2] = b[1] * a[2]

\* C23: the equity series starts with a baseline point of equity
\* initial_cash: the total return is (last equity - initial_cash) /
\* initial_cash and there is a daily return for every trading day, the first
\* included; calculate_portfolio_metrics (in the report) and
\* daily_results_with_llm give the same total return and the same number of
\* daily returns for the history.
C23_BaselineSeedsSeries ==
    (lastReport # None /\ lastReport[1].metrics # None) =>
        LET equity_series == EquitySeries(history)
            last == equity_series[Len(equity_series)]
            manager == lastReport[1].metrics[1]
            script == portfolio_performance(history)
        IN  /\ frac_eq(manager.total_return, <<last - InitialCash, InitialCash>>)
            /\ frac_eq(script.total_return, <<last - InitialCash, InitialCash>>)
            /\ frac_eq(script.total_return, manager.total_return)
            /\ script.n_days = manager.trading_days
            /\ Len(pct_change(equity_series)) = manager.trading_days

\* C24: every standard deviation of the metrics is the population standard
\* deviation (divisor n): on a history with exactly one daily return the
\* standard deviation of the daily returns is 0, in the report's volatility
\* and in the script's std_daily alike.
C24_PopulationStd ==
    (/\ lastReport # None
     /\ lastReport[1].metrics # None
     /\ Len(pct_change(EquitySeries(history))) = 1) =>
        /\ lastReport[1].metrics[1].volatility = "zero"
        /\ std(pct_change(EquitySeries(history))) = "zero"

\* C25: every open position of the ledger has shares > 0.
C25_OpenSharesPositive ==
    \A i \in 1..Len(portfolio) : portfolio[i].shares > 0

\* C26: a step that evaluates the stop losses (the report) leaves the ledger
\* as it was: no sale is executed (cash and portfolio unchanged), no trade
\* record is written, the history file is unchanged, and the positions and
\* market data in the report are those the evaluation was given; the
\* triggered positions are only returned.
C26_CheckStopLossesPure ==
    [][lastOp'.kind = "report" =>
         /\ UNCHANGED <<cash, portfolio, tradeLog, history>>
         /\ lastReport' # None
         /\ lastReport'[1].current_positions = get_current_positions(history)
         /\ lastReport'[1].stop_losses =
              check_stop_losses(lastReport'[1].current_positions.positions,
                                lastReport'[1].market_data)]_vars

\* a report in which a stop loss triggered, with nothing sold or logged
C26_Witness ==
    /\ lastOp.kind = "report"
    /\ lastReport # None
    /\ Len(lastReport[1].stop_losses) > 0
    /\ tradeLog = <<>>
    /\ portfolio \in StartPortfolio

\* the sum of price x shares over the rows from i on that have a price
RECURSIVE PricedValue(_, _)
PricedValue(rows, i) ==
    IF i > Len(rows) THEN 0
    ELSE (IF rows[i].Price # None
          THEN rows[i].Price[1] * rows[i].Shares[1] ELSE 0)
         + PricedValue(rows, i + 1)

\* Total Equity of the TOTAL row the daily run wrote today
TodaysEquity ==
    LET rows == RowsOf(history, today)
    IN  rows[Len(rows)].Equity[1]

\* the daily run sold a position by its stop loss today
SoldToday ==
    /\ lastOp.kind = "run"
    /\ \E i \in 1..Len(history) :
          history[i].Date = today /\ history[i].Action = SellAction

\* C27 as stated: after a daily run with a stop-loss sale the TOTAL row's
\* total_equity is exactly starting_cash plus the sum of price x shares over
\* every row with a price, held or sold by its stop loss.
C27_StopLossConservesEquity ==
    SoldToday =>
        TodaysEquity = cash + PricedValue(RowsOf(history, today), 1)

\* C27, amended: after a daily run with a stop-loss sale the TOTAL row's
\* total_equity is starting_cash plus the sum of price x shares over every
\* row with a price, held or sold by its stop loss, rounded to the cent; a
\* stop-loss sale changes nothing in it.
C27_EquityIsRoundedSum ==
    SoldToday =>
        TodaysEquity = Round2(cash + PricedValue(RowsOf(history, today), 1))

\* a run that sold one position by its stop loss and held the other, on cash
\* with a fraction of a cent
C27_Witness ==
    /\ SoldToday
    /\ \E j \in 1..Len(history) : history[j].Action = "HOLD"
    /\ Round2(cash) # cash
    /\ TodaysEquity # cash + PricedValue(RowsOf(history, today), 1)

\* the date of the latest snapshot in the history
LatestDate(hist) ==
    CHOOSE d \in {hist[i].Date : i \in 1..Len(hist)} :
        \A i \in 1..Len(hist) : hist[i].Date <= d

\* C28: on a history of several dates the report's current positions are
\* exactly the tickers with a row on the latest snapshot date, and its cash
\* and total equity are those of the latest date's TOTAL row.
C28_CurrentPositionsAreLatest ==
    (lastReport # None /\ Len(TotalRows(history)) > 0) =>
        LET latest == RowsOf(history, LatestDate(history))
            current == lastReport[1].current_positions
        IN  /\ {current.positions[i].ticker :
                   i \in 1..Len(current.positions)}
                 = {latest[i].Ticker : i \in 1..Len(latest)} \ {"TOTAL"}
            /\ current.cash = latest[Len(latest)].Cash
            /\ current.total_equity = latest[Len(latest)].Equity

\* C29: run_daily_analysis ends normally and has written the daily report
\* file, whatever the state of the AI: on, both calls succeeding; on, a call
\* failing; off, switched off by the caller or by the constructor when no
\* provider is available.
C29_AnalysisAlwaysCompletes ==
    lastOp.kind = "analysis" =>
        /\ lastOp.err = "ok"
        /\ reportFile # None
====
